---------------------------- MODULE Spec2Model ----------------------------
(***************************************************************************)
(* Model of BufferPoolManager (src/buffer/buffer_pool_manager.cpp): the    *)
(* frame array pages_, the page table, the free list, the clock replacer,  *)
(* the disk manager and the latch, driven by client threads that call the  *)
(* public operations.                                                      *)
(***************************************************************************)
EXTENDS Integers, Sequences, FiniteSets, TLC

\* ------------------------------------------------------------------ bounds
PoolSize == 2      \* pool_size_: number of frames
MaxPages == 3      \* page ids the disk manager hands out: 0 .. MaxPages-1
MaxPin   == 2      \* cap on a frame's pin count
MaxWrites == 1     \* buffer writes the clients make in one run

INVALID_PAGE_ID == -1

Threads == {"t1", "t2"}
Frames  == 0 .. (PoolSize - 1)
PageIds == 0 .. (MaxPages - 1)

\* Buffer contents: Zeroed is the zero-filled page, Marker the bytes a client
\* writes into a page it holds.
Zeroed == 0
Marker == 1

VARIABLES
    pages,         \* pages_[f]: [page_id, pin_count, is_dirty, data]
    page_table,    \* page_table_: function, DOMAIN = resident page ids
    free_list,     \* free_list_: sequence of frame ids
    replacer,      \* replacer_: [tracked, ref, hand]
    disk,          \* disk manager: persisted content per page id
    next_page_id,  \* disk manager: next id AllocatePage returns
    latch,         \* latch_: TRUE while locked
    pc,            \* per thread: position inside the operation it runs
    op,            \* per thread: the running operation and its locals
    marked,        \* history: pages unpinned to 0 as dirty with the marker written
    nwrites,       \* history: buffer writes made so far
    last           \* history: the operation that returned last

vars == <<pages, page_table, free_list, replacer, disk, next_page_id,
          latch, pc, op, marked, nwrites, last>>

\* ------------------------------------------------------- sequence helpers
Front(s) == SubSeq(s, 1, Len(s) - 1)
Last(s)  == s[Len(s)]

\* --------------------------------------------------------------- the Page
NewFrame == [page_id |-> INVALID_PAGE_ID, pin_count |-> 0,
             is_dirty |-> FALSE, data |-> Zeroed]

\* Page::ResetMemory zero-fills data_ and touches nothing else.
ResetMemory(pg) == [pg EXCEPT !.data = Zeroed]

\* ------------------------------------------------------ the ClockReplacer
NewReplacer == [tracked |-> {}, ref |-> {}, hand |-> 0]

\* Pin(frame): the frame stops being a candidate; no-op when not tracked.
ReplacerPin(r, f) ==
    [r EXCEPT !.tracked = @ \ {f}, !.ref = @ \ {f}]

\* Unpin(frame): the frame becomes a candidate with its recency bit set;
\* no-op when already tracked.
ReplacerUnpin(r, f) ==
    IF f \in r.tracked THEN r
    ELSE [r EXCEPT !.tracked = @ \cup {f}, !.ref = @ \cup {f}]

RECURSIVE ClockScan(_)
ClockScan(r) ==
    LET h    == r.hand
        next == (h + 1) % PoolSize
    IN  IF h \notin r.tracked THEN ClockScan([r EXCEPT !.hand = next])
        ELSE IF h \in r.ref THEN ClockScan([r EXCEPT !.ref = @ \ {h}, !.hand = next])
        ELSE [found |-> TRUE, frame |-> h,
              r |-> [r EXCEPT !.tracked = @ \ {h}, !.hand = next]]

\* Victim(&frame): second-chance scan from the hand; false when nothing is tracked.
ReplacerVictim(r) ==
    IF r.tracked = {} THEN [found |-> FALSE, frame |-> 0, r |-> r]
    ELSE ClockScan(r)

\* -------------------------------------------------------- the DiskManager
ReadPage(d, pid) == d[pid]
WritePage(d, pid, bytes) == [d EXCEPT ![pid] = bytes]

\* ------------------------------------------------------------- page table
Find(pt, pid) == pid \in DOMAIN pt
Bind(pt, pid, f) == [p \in (DOMAIN pt) \cup {pid} |-> IF p = pid THEN f ELSE pt[p]]
Erase(pt, pid) == [p \in (DOMAIN pt) \ {pid} |-> pt[p]]


\* ------------------------------------------------- the pool as one value
\* The shared state the operations work on, gathered so that each *Impl
\* below is a function from the state before the call to the state after.
Pool == [pages |-> pages, page_table |-> page_table, free_list |-> free_list,
         replacer |-> replacer, disk |-> disk, next_page_id |-> next_page_id]

\* What an operation hands back: the pool after it, its return value, the
\* page id it is about, whether it unlocked latch_, and its disk calls.
Outcome(st, ok, pid, unlocked, writes, reads, allocs, deallocs) ==
    [st |-> st, ok |-> ok, pid |-> pid, unlocked |-> unlocked,
     writes |-> writes, reads |-> reads, allocs |-> allocs, deallocs |-> deallocs]

\* A pool that only goes to the free list while more than one frame is left.
Mut_FreeListAvailable(fl) == Len(fl) > 1

\* free_list_.size() != 0
FreeListAvailable(fl) == Len(fl) # 0

\* --------------------------------------------------------------- FetchPage
\* The page id the eviction path of FetchPageImpl passes to WritePage.
FetchWriteBackId(page_id, replacerPage) == page_id

\* An eviction that forgets to erase the victim's page table entry.
Mut_FetchUnbind(pt, replacerPage) == pt

\* page_table_.erase(replacerPage) on the eviction path of FetchPageImpl.
FetchUnbind(pt, replacerPage) == Erase(pt, replacerPage)

\* A hit that sets the pin count to one instead of incrementing it.
Mut_FetchHitSetsOne(st, page_id) ==
    LET reqFrame == st.page_table[page_id]
    IN  Outcome([st EXCEPT !.replacer = ReplacerPin(@, reqFrame),
                           !.pages[reqFrame].pin_count = 1],
                TRUE, page_id, TRUE, <<>>, <<>>, 0, <<>>)

\* A hit that forgets replacer_->Pin(reqFrame).
Mut_FetchHitNoPin(st, page_id) ==
    LET reqFrame == st.page_table[page_id]
    IN  Outcome([st EXCEPT !.pages[reqFrame].pin_count = @ + 1],
                TRUE, page_id, TRUE, <<>>, <<>>, 0, <<>>)

FetchHit(st, page_id) ==
    LET reqFrame == st.page_table[page_id]
    IN  Outcome([st EXCEPT !.replacer = ReplacerPin(@, reqFrame),
                           !.pages[reqFrame].pin_count = @ + 1],
                TRUE, page_id, TRUE, <<>>, <<>>, 0, <<>>)

FetchFromFreeList(st, page_id) ==
    LET reqFrame == Head(st.free_list)
        bytes    == ReadPage(st.disk, page_id)
    IN  Outcome([st EXCEPT !.free_list = Tail(@),
                           !.replacer = ReplacerPin(@, reqFrame),
                           !.pages[reqFrame] =
                               [page_id   |-> page_id,
                                pin_count |-> @.pin_count + 1,
                                is_dirty  |-> FALSE,
                                data      |-> bytes],
                           !.page_table = Bind(@, page_id, reqFrame)],
                TRUE, page_id, TRUE, <<>>, <<page_id>>, 0, <<>>)

FetchEvict(st, page_id) ==
    LET v == ReplacerVictim(st.replacer)
    IN  IF ~v.found
        THEN \* return nullptr with latch_ still locked
             Outcome(st, FALSE, page_id, FALSE, <<>>, <<>>, 0, <<>>)
        ELSE
        LET reqFrame     == v.frame
            old          == st.pages[reqFrame]
            replacerPage == old.page_id
            wid          == FetchWriteBackId(page_id, replacerPage)
            disk1        == IF old.is_dirty THEN WritePage(st.disk, wid, old.data)
                            ELSE st.disk
            writes       == IF old.is_dirty THEN << <<wid, old.data>> >> ELSE <<>>
            bytes        == ReadPage(disk1, page_id)
        IN  Outcome([st EXCEPT !.disk = disk1,
                               !.replacer = ReplacerPin(v.r, reqFrame),
                               !.pages[reqFrame] =
                                   [page_id   |-> page_id,
                                    pin_count |-> old.pin_count + 1,
                                    is_dirty  |-> FALSE,
                                    data      |-> bytes],
                               !.page_table =
                                   Bind(FetchUnbind(@, replacerPage), page_id, reqFrame)],
                    TRUE, page_id, TRUE, writes, <<page_id>>, 0, <<>>)

FetchPageImpl(st, page_id) ==
    IF Find(st.page_table, page_id) THEN FetchHit(st, page_id)
    ELSE IF FreeListAvailable(st.free_list) THEN FetchFromFreeList(st, page_id)
    ELSE FetchEvict(st, page_id)

\* ----------------------------------------------------------------- NewPage
\* The page id the eviction path of NewPageImpl passes to WritePage.
NewWriteBackId(page_id, evictingPage) == evictingPage

NewFromFreeList(st) ==
    LET freeFrame == Last(st.free_list)
        page_id   == st.next_page_id
    IN  Outcome([st EXCEPT !.free_list = Front(@),
                           !.next_page_id = @ + 1,
                           !.pages[freeFrame] =
                               [page_id   |-> page_id,
                                pin_count |-> 1,
                                is_dirty  |-> FALSE,
                                data      |-> Zeroed],
                           !.page_table = Bind(@, page_id, freeFrame),
                           !.replacer = ReplacerPin(@, freeFrame)],
                TRUE, page_id, TRUE, <<>>, <<>>, 1, <<>>)

\* An eviction for NewPage that hands out the victim's bytes unzeroed.
Mut_NewEvictKeepsBytes(st) ==
    LET v == ReplacerVictim(st.replacer)
    IN  IF ~v.found
        THEN Outcome(st, FALSE, INVALID_PAGE_ID, TRUE, <<>>, <<>>, 0, <<>>)
        ELSE
        LET newCandidFrame == v.frame
            old            == st.pages[newCandidFrame]
            evictingPage   == old.page_id
            page_id        == st.next_page_id
            wid            == NewWriteBackId(page_id, evictingPage)
            disk1          == IF old.is_dirty THEN WritePage(st.disk, wid, old.data)
                              ELSE st.disk
            writes         == IF old.is_dirty THEN << <<wid, old.data>> >> ELSE <<>>
        IN  Outcome([st EXCEPT !.disk = disk1,
                               !.next_page_id = @ + 1,
                               !.pages[newCandidFrame] =
                                   [page_id   |-> page_id,
                                    pin_count |-> 1,
                                    is_dirty  |-> FALSE,
                                    data      |-> old.data],
                               !.replacer = ReplacerPin(v.r, newCandidFrame),
                               !.page_table =
                                   Bind(Erase(@, evictingPage), page_id, newCandidFrame)],
                    TRUE, page_id, TRUE, writes, <<>>, 1, <<>>)

NewEvict(st) ==
    LET v == ReplacerVictim(st.replacer)
    IN  IF ~v.found
        THEN Outcome(st, FALSE, INVALID_PAGE_ID, TRUE, <<>>, <<>>, 0, <<>>)
        ELSE
        LET newCandidFrame == v.frame
            old            == st.pages[newCandidFrame]
            evictingPage   == old.page_id
            page_id        == st.next_page_id
            wid            == NewWriteBackId(page_id, evictingPage)
            disk1          == IF old.is_dirty THEN WritePage(st.disk, wid, old.data)
                              ELSE st.disk
            writes         == IF old.is_dirty THEN << <<wid, old.data>> >> ELSE <<>>
        IN  Outcome([st EXCEPT !.disk = disk1,
                               !.next_page_id = @ + 1,
                               !.pages[newCandidFrame] =
                                   [page_id   |-> page_id,
                                    pin_count |-> 1,
                                    is_dirty  |-> FALSE,
                                    data      |-> Zeroed],
                               !.replacer = ReplacerPin(v.r, newCandidFrame),
                               !.page_table =
                                   Bind(Erase(@, evictingPage), page_id, newCandidFrame)],
                    TRUE, page_id, TRUE, writes, <<>>, 1, <<>>)

NewPageImpl(st) ==
    IF FreeListAvailable(st.free_list) THEN NewFromFreeList(st)
    ELSE NewEvict(st)

\* --------------------------------------------------------------- UnpinPage
\* An unpin that only refuses below zero.
Mut_UnpinRefused(pg) == pg.pin_count < 0

\* pages_[targetFrame].GetPinCount() <= 0
UnpinRefused(pg) == pg.pin_count <= 0

\* An unpin that stores the caller's flag whatever it is.
Mut_UnpinDirty(was_dirty, is_dirty) == is_dirty

\* if(is_dirty) pages_[targetFrame].is_dirty_ = is_dirty;
UnpinDirty(was_dirty, is_dirty) == IF is_dirty THEN is_dirty ELSE was_dirty

UnpinPageImpl(st, page_id, is_dirty) ==
    IF ~Find(st.page_table, page_id)
    THEN Outcome(st, TRUE, page_id, TRUE, <<>>, <<>>, 0, <<>>)
    ELSE
    LET targetFrame == st.page_table[page_id]
        pg          == st.pages[targetFrame]
    IN  IF UnpinRefused(pg)
        THEN Outcome(st, FALSE, page_id, TRUE, <<>>, <<>>, 0, <<>>)
        ELSE
        LET pg1 == [pg EXCEPT !.is_dirty = UnpinDirty(@, is_dirty),
                              !.pin_count = @ - 1]
        IN  Outcome([st EXCEPT !.pages[targetFrame] = pg1,
                               !.replacer = IF pg1.pin_count = 0
                                            THEN ReplacerUnpin(@, targetFrame)
                                            ELSE @],
                    TRUE, page_id, TRUE, <<>>, <<>>, 0, <<>>)

\* --------------------------------------------------------------- FlushPage
\* A flush that writes the page but leaves its dirty flag set.
Mut_FlushKeepsDirty(st, page_id) ==
    IF Find(st.page_table, page_id)
    THEN LET targetFrame == st.page_table[page_id]
             pg          == st.pages[targetFrame]
         IN  IF pg.is_dirty
             THEN Outcome([st EXCEPT !.disk = WritePage(@, page_id, pg.data)],
                          TRUE, page_id, TRUE, << <<page_id, pg.data>> >>, <<>>, 0, <<>>)
             ELSE Outcome(st, TRUE, page_id, TRUE, <<>>, <<>>, 0, <<>>)
    ELSE Outcome(st, FALSE, page_id, TRUE, <<>>, <<>>, 0, <<>>)

\* FlushPageImpl as FlushAllPagesImpl calls it: one uninterrupted run.
FlushPageImpl(st, page_id) ==
    IF Find(st.page_table, page_id)
    THEN LET targetFrame == st.page_table[page_id]
             pg          == st.pages[targetFrame]
         IN  IF pg.is_dirty
             THEN Outcome([st EXCEPT !.disk = WritePage(@, page_id, pg.data),
                                     !.pages[targetFrame].is_dirty = FALSE],
                          TRUE, page_id, TRUE, << <<page_id, pg.data>> >>, <<>>, 0, <<>>)
             ELSE Outcome(st, TRUE, page_id, TRUE, <<>>, <<>>, 0, <<>>)
    ELSE Outcome(st, FALSE, page_id, TRUE, <<>>, <<>>, 0, <<>>)

\* ----------------------------------------------------------- FlushAllPages
RECURSIVE FlushLoop(_, _, _)
FlushLoop(st, i, writes) ==
    IF i >= PoolSize THEN Outcome(st, TRUE, INVALID_PAGE_ID, TRUE, writes, <<>>, 0, <<>>)
    ELSE IF st.pages[i].is_dirty
         THEN LET r == FlushPageImpl(st, st.pages[i].page_id)
              IN  FlushLoop(r.st, i + 1, writes \o r.writes)
         ELSE FlushLoop(st, i + 1, writes)

\* A pass over the frames that starts at the second one.
Mut_FlushAllFromOne(st) == FlushLoop(st, 1, <<>>)

FlushAllPagesImpl(st) == FlushLoop(st, 0, <<>>)

\* -------------------------------------------------------------- DeletePage
\* The test DeletePageImpl makes before it deletes: pages_[targetFrame].GetPageId() == 0
DeleteEligible(pg) == pg.page_id = 0

DeletePageImpl(st, page_id) ==
    IF Find(st.page_table, page_id)
    THEN LET targetFrame == st.page_table[page_id]
         IN  IF DeleteEligible(st.pages[targetFrame])
             THEN Outcome([st EXCEPT !.page_table = Erase(@, page_id),
                                     !.pages[targetFrame] =
                                         [ResetMemory(@) EXCEPT !.is_dirty = FALSE,
                                                                !.pin_count = 0],
                                     !.free_list = Append(@, targetFrame)],
                          TRUE, page_id, TRUE, <<>>, <<>>, 0, <<page_id>>)
             ELSE Outcome(st, FALSE, page_id, TRUE, <<>>, <<>>, 0, <<>>)
    ELSE Outcome(st, TRUE, page_id, TRUE, <<>>, <<>>, 0, <<>>)

\* ------------------------------------------------------------ the threads
IdleOp == [pid |-> 0, frame |-> 0]

NoOp == [name |-> "none", pid |-> INVALID_PAGE_ID, ok |-> TRUE]

Returned(name, pid, ok) == [name |-> name, pid |-> pid, ok |-> ok]

\* The page ids a client can name: those AllocatePage has handed out.
Allocated == 0 .. (next_page_id - 1)

\* One public operation run under latch_: lock() needs the latch free, the
\* body runs, and the latch is free again exactly when the path taken unlocks.
\* latch_ is a std::mutex: a lock() on it while it is held, by any thread,
\* does not return.
Locked(t, name, r) ==
    /\ pc[t] = "idle"
    /\ ~latch
    /\ latch' = ~r.unlocked
    /\ pages' = r.st.pages
    /\ page_table' = r.st.page_table
    /\ free_list' = r.st.free_list
    /\ replacer' = r.st.replacer
    /\ disk' = r.st.disk
    /\ next_page_id' = r.st.next_page_id
    /\ last' = Returned(name, r.pid, r.ok)
    /\ UNCHANGED <<pc, op, nwrites>>

Init ==
    /\ pages = [f \in Frames |-> NewFrame]
    /\ page_table = << >>
    /\ free_list = [i \in 1 .. PoolSize |-> i - 1]
    /\ replacer = NewReplacer
    /\ disk = [p \in PageIds |-> Zeroed]
    /\ next_page_id = 0
    /\ latch = FALSE
    /\ pc = [t \in Threads |-> "idle"]
    /\ op = [t \in Threads |-> IdleOp]
    /\ marked = {}
    /\ nwrites = 0
    /\ last = NoOp

FetchPage(t, page_id) ==
    /\ Find(page_table, page_id) => pages[page_table[page_id]].pin_count < MaxPin
    /\ Locked(t, "FetchPage", FetchPageImpl(Pool, page_id))
    /\ UNCHANGED marked

NewPage(t) ==
    /\ \/ next_page_id < MaxPages
       \/ ~NewPageImpl(Pool).ok
    /\ Locked(t, "NewPage", NewPageImpl(Pool))
    /\ UNCHANGED marked

UnpinPage(t, page_id, is_dirty) ==
    /\ Locked(t, "UnpinPage", UnpinPageImpl(Pool, page_id, is_dirty))
    /\ marked' = IF /\ is_dirty
                    /\ Find(page_table, page_id)
                    /\ pages[page_table[page_id]].pin_count = 1
                    /\ pages[page_table[page_id]].data = Marker
                 THEN marked \cup {page_id}
                 ELSE marked

DeletePage(t, page_id) ==
    /\ Locked(t, "DeletePage", DeletePageImpl(Pool, page_id))
    /\ marked' = IF DeletePageImpl(Pool, page_id).deallocs # <<>>
                 THEN marked \ {page_id} ELSE marked

FlushAllPages(t) ==
    /\ Locked(t, "FlushAllPages", FlushAllPagesImpl(Pool))
    /\ UNCHANGED marked

\* FlushPageImpl called by a client while no other call is in progress: it
\* takes no lock and runs from its first access to its return.
FlushPage(t, page_id) ==
    LET r == FlushPageImpl(Pool, page_id)
    IN  /\ pc[t] = "idle"
        /\ pages' = r.st.pages
        /\ disk' = r.st.disk
        /\ last' = Returned("FlushPage", page_id, r.ok)
        /\ UNCHANGED <<page_table, free_list, replacer, next_page_id, latch,
                       pc, op, marked, nwrites>>

\* FlushPageImpl called by a client takes no lock: each access it makes to
\* the shared state is a step other threads' steps can fall between, and what
\* the unsynchronised call ends up writing depends on where they fall.
FlushFind(t, page_id) ==
    /\ pc[t] = "idle"
    /\ IF Find(page_table, page_id)
       THEN /\ pc' = [pc EXCEPT ![t] = "flush_check"]
            /\ op' = [op EXCEPT ![t] = [pid |-> page_id, frame |-> page_table[page_id]]]
            /\ UNCHANGED last
       ELSE /\ last' = Returned("FlushPage", page_id, FALSE)
            /\ UNCHANGED <<pc, op, nwrites>>
    /\ UNCHANGED <<pages, page_table, free_list, replacer, disk, next_page_id,
                   latch, marked, nwrites>>

FlushCheck(t) ==
    /\ pc[t] = "flush_check"
    /\ IF pages[op[t].frame].is_dirty
       THEN /\ pc' = [pc EXCEPT ![t] = "flush_write"]
            /\ UNCHANGED <<op, last>>
       ELSE /\ pc' = [pc EXCEPT ![t] = "idle"]
            /\ op' = [op EXCEPT ![t] = IdleOp]
            /\ last' = Returned("FlushPage", op[t].pid, TRUE)
    /\ UNCHANGED <<pages, page_table, free_list, replacer, disk, next_page_id,
                   latch, marked, nwrites>>

FlushWrite(t) ==
    /\ pc[t] = "flush_write"
    /\ disk' = WritePage(disk, op[t].pid, pages[op[t].frame].data)
    /\ pc' = [pc EXCEPT ![t] = "flush_clear"]
    /\ UNCHANGED <<pages, page_table, free_list, replacer, next_page_id,
                   latch, op, marked, nwrites, last>>

FlushClear(t) ==
    /\ pc[t] = "flush_clear"
    /\ pages' = [pages EXCEPT ![op[t].frame].is_dirty = FALSE]
    /\ pc' = [pc EXCEPT ![t] = "idle"]
    /\ op' = [op EXCEPT ![t] = IdleOp]
    /\ last' = Returned("FlushPage", op[t].pid, TRUE)
    /\ UNCHANGED <<page_table, free_list, replacer, disk, next_page_id,
                   latch, marked, nwrites>>

\* A client that holds a pin on a resident page writes the marker
\* into its buffer through the Page* the fetch returned.
WriteData(t, page_id) ==
    /\ pc[t] = "idle"
    /\ Find(page_table, page_id)
    /\ pages[page_table[page_id]].pin_count > 0
    /\ nwrites < MaxWrites
    /\ nwrites' = nwrites + 1
    /\ pages' = [pages EXCEPT ![page_table[page_id]].data = Marker]
    /\ UNCHANGED <<page_table, free_list, replacer, disk, next_page_id,
                   latch, pc, op, marked, last>>

\* The operations that run under latch_.
Call(t) ==
    \/ \E p \in Allocated : FetchPage(t, p)
    \/ NewPage(t)
    \/ \E p \in Allocated, d \in BOOLEAN : UnpinPage(t, p, d)
    \/ \E p \in Allocated : DeletePage(t, p)
    \/ FlushAllPages(t)

\* Calls made one after another by a single client thread.
Next ==
    \/ Call("t1")
    \/ \E p \in Allocated : FlushPage("t1", p)

Spec == Init /\ [][Next]_vars

\* The same client also writes into the buffers of the pages it holds.
NextData ==
    \/ Next
    \/ \E p \in Allocated : WriteData("t1", p)

SpecData == Init /\ [][NextData]_vars

\* Calls made by two threads at once: the steps of one thread's FlushPage
\* interleave with the other thread's calls.
NextConc ==
    \E t \in Threads :
        \/ Call(t)
        \/ \E p \in Allocated : FlushFind(t, p)
        \/ FlushCheck(t)
        \/ FlushWrite(t)
        \/ FlushClear(t)

SpecConc == Init /\ [][NextConc]_vars

\* ----------------------------------------------------------------- claims
Range(f) == {f[x] : x \in DOMAIN f}
Bound(f) == \E p \in DOMAIN page_table : page_table[p] = f
InFreeList(f) == f \in Range(free_list)
Tracked(f) == f \in replacer.tracked

IsFree(f)      == InFreeList(f) /\ ~Bound(f) /\ ~Tracked(f)
IsPinned(f)    == ~InFreeList(f) /\ Bound(f) /\ pages[f].pin_count > 0 /\ ~Tracked(f)
IsEvictable(f) == ~InFreeList(f) /\ Bound(f) /\ pages[f].pin_count = 0 /\ Tracked(f)

\* No frame is free or tracked by the replacer: Fetch and New have nowhere to go.
Exhausted == free_list = <<>> /\ replacer.tracked = {}

\* The frame an eviction would reuse, as it is before the call.
Victim == pages[ReplacerVictim(replacer).frame]
EvictsDirty == free_list = <<>> /\ ReplacerVictim(replacer).found /\ Victim.is_dirty

C2_PageTableBijection ==
    /\ \A p \in DOMAIN page_table :
           /\ page_table[p] \in Frames
           /\ pages[page_table[p]].page_id = p
    /\ \A p, q \in DOMAIN page_table : page_table[p] = page_table[q] => p = q
    /\ \A f \in Frames : Bound(f) <=> ~InFreeList(f)

\* C2 witness: the pool is full of bound frames after a FetchPage that had to
\* evict (every page id is allocated, so one page is out of the pool).
C2_Witness ==
    /\ last.name = "FetchPage" /\ last.ok
    /\ free_list = <<>>
    /\ Cardinality(DOMAIN page_table) = PoolSize
    /\ next_page_id > PoolSize
    /\ C2_PageTableBijection

\* C3: when the eviction path of FetchPage or NewPage reuses a dirty victim
\* frame, the single WritePage call it issues carries the page id resident in
\* the victim frame before the call and the victim frame's bytes.
C3_VictimWriteBack ==
    [][\A t \in Threads, p \in PageIds :
          /\ (~Find(page_table, p) /\ EvictsDirty /\ FetchPage(t, p))
             => FetchPageImpl(Pool, p).writes = << <<Victim.page_id, Victim.data>> >>
          /\ (EvictsDirty /\ NewPage(t))
             => NewPageImpl(Pool).writes = << <<Victim.page_id, Victim.data>> >>]_vars

\* C4: a page whose buffer held the marker when it was unpinned as dirty down
\* to pin count 0 holds the marker again after every later successful
\* FetchPage of it, whatever evictions happened in between.
C4_RoundTrip ==
    (last.name = "FetchPage" /\ last.ok /\ last.pid \in marked)
    => pages[page_table[last.pid]].data = Marker

\* C5: after any operation returns, a failed FetchPage or NewPage included,
\* the latch is free, so the next operation can take it.
C5_LatchFreeAfterReturn ==
    (\A t \in Threads : pc[t] = "idle") => ~latch

\* C6: the public operations are mutually exclusive: while one thread is
\* between the first and the last access of its operation to the shared
\* state, no other thread's operation takes a step on that state.
C6_MutualExclusion ==
    [][\A t \in Threads : pc[t] # "idle" => pc'[t] # pc[t]]_vars

\* C7: DeletePage(P) on a resident page P with pin_count > 0 returns failure
\* and changes nothing: the page table, every frame and the free list stay as
\* they were and DeallocatePage is not called.
C7_DeletePinnedRefused ==
    [][\A t \in Threads, p \in PageIds :
          (/\ Find(page_table, p)
           /\ pages[page_table[p]].pin_count > 0
           /\ DeletePage(t, p))
          => (/\ ~last'.ok
              /\ DeletePageImpl(Pool, p).deallocs = <<>>
              /\ UNCHANGED <<page_table, pages, free_list>>)]_vars

\* C8: DeletePage(P) on a resident page P with pin_count = 0 succeeds:
\* DeallocatePage is called once with P, P leaves the page table, the frame
\* is reset (zero buffer, not dirty, pin_count 0, page_id invalid) and is
\* appended to the free list.
C8_DeleteUnpinned ==
    [][\A t \in Threads, p \in PageIds :
          (/\ Find(page_table, p)
           /\ pages[page_table[p]].pin_count = 0
           /\ DeletePage(t, p))
          => (/\ last'.ok
              /\ DeletePageImpl(Pool, p).deallocs = <<p>>
              /\ ~Find(page_table', p)
              /\ pages'[page_table[p]] = NewFrame
              /\ free_list' = Append(free_list, page_table[p]))]_vars

NoDiskCall(r) == r.reads = <<>> /\ r.writes = <<>> /\ r.allocs = 0 /\ r.deallocs = <<>>

\* C9: FetchPage of a non-resident page and NewPage fail exactly when no frame
\* is in the free list and none is tracked by the replacer; a failure leaves
\* page table, free list, replacer, the frames and the disk as they were and
\* makes no disk call.
C9_FailsIffExhausted ==
    [][\A t \in Threads, p \in PageIds :
          /\ (~Find(page_table, p) /\ last'.name = "FetchPage" /\ FetchPage(t, p))
             => /\ last'.ok <=> ~Exhausted
                /\ ~last'.ok =>
                      /\ UNCHANGED <<page_table, free_list, replacer, pages,
                                     disk, next_page_id>>
                      /\ NoDiskCall(FetchPageImpl(Pool, p))
          /\ (last'.name = "NewPage" /\ NewPage(t))
             => /\ last'.ok <=> ~Exhausted
                /\ ~last'.ok =>
                      /\ UNCHANGED <<page_table, free_list, replacer, pages,
                                     disk, next_page_id>>
                      /\ NoDiskCall(NewPageImpl(Pool))]_vars

\* C9 witness: a FetchPage or NewPage has just failed on an exhausted pool.
C9_Witness ==
    /\ last.name \in {"FetchPage", "NewPage"}
    /\ ~last.ok
    /\ Exhausted
    /\ \A f \in Frames : pages[f].pin_count > 0

\* C10: pin_count is never negative, and UnpinPage on a resident page whose
\* pin_count is already 0 returns failure and changes neither the pin count
\* nor the dirty flag nor the replacer.
C10_NoUnpinPastZero ==
    /\ [](\A f \in Frames : pages[f].pin_count >= 0)
    /\ [][\A t \in Threads, p \in PageIds, d \in BOOLEAN :
             (/\ Find(page_table, p)
              /\ pages[page_table[p]].pin_count = 0
              /\ UnpinPage(t, p, d))
             => (/\ ~last'.ok
                 /\ UNCHANGED <<pages, replacer>>)]_vars

\* C10 witness: an UnpinPage of a resident page with pin_count 0 has just
\* been refused.
C10_Witness ==
    /\ last.name = "UnpinPage"
    /\ ~last.ok
    /\ Find(page_table, last.pid)
    /\ pages[page_table[last.pid]].pin_count = 0

\* C11: UnpinPage(P, d) on a page id that is not resident reports failure
\* (returns false) and changes nothing in the pool, the replacer or on disk.
C11_UnpinNonResidentFails ==
    [][\A t \in Threads, p \in PageIds, d \in BOOLEAN :
          (/\ ~Find(page_table, p)
           /\ UnpinPage(t, p, d))
          => (/\ ~last'.ok
              /\ UNCHANGED <<pages, page_table, free_list, replacer, disk,
                             next_page_id>>)]_vars

\* A FetchPage of a non-resident page or a NewPage that has to evict: the free
\* list is empty and the replacer has a victim.
Evicting == ~FreeListAvailable(free_list) /\ ReplacerVictim(replacer).found

\* C12: whenever the eviction path of FetchPage or NewPage obtains a victim
\* frame from the replacer, that frame's pin_count is 0 at the moment of
\* selection, and no page with pin_count > 0 loses its frame to the call.
C12_VictimUnpinned ==
    [][\A t \in Threads, p \in PageIds :
          (/\ Evicting
           /\ \/ ~Find(page_table, p) /\ FetchPage(t, p)
              \/ NewPage(t))
          => (/\ Victim.pin_count = 0
              /\ Victim.page_id \notin DOMAIN page_table'
              /\ \A q \in DOMAIN page_table :
                     pages[page_table[q]].pin_count > 0
                     => (/\ q \in DOMAIN page_table'
                         /\ page_table'[q] = page_table[q]))]_vars

\* An eviction has happened (the clock hand only moves in Victim) and the last
\* call was a successful FetchPage or NewPage with no free frame left.
C12_Witness ==
    /\ last.name \in {"FetchPage", "NewPage"}
    /\ last.ok
    /\ replacer.hand # 0
    /\ free_list = <<>>
    /\ next_page_id > PoolSize

\* C13: a successful FetchPage(P) on a non-resident page P leaves the chosen
\* frame with page_id = P, pin_count = 1, dirty = false, bound under P in the
\* page table, and with a buffer equal to the disk content of P immediately
\* before the call; the call does not change the persisted content of P.
C13_FetchMissLoads ==
    [][\A t \in Threads, p \in PageIds :
          (/\ ~Find(page_table, p)
           /\ last'.name = "FetchPage"
           /\ last'.ok
           /\ FetchPage(t, p))
          => (/\ Find(page_table', p)
              /\ pages'[page_table'[p]] = [page_id   |-> p,
                                           pin_count |-> 1,
                                           is_dirty  |-> FALSE,
                                           data      |-> ReadPage(disk, p)]
              /\ ReadPage(disk', p) = ReadPage(disk, p))]_vars

\* C14: FetchPage(P) on a resident page P returns the frame already bound to
\* P, increments that frame's pin_count by exactly 1, removes the frame from
\* the replacer's tracking, and performs no disk read or write and no change
\* to the page table, the free list, the frame's dirty flag or its buffer.
C14_FetchHit ==
    [][\A t \in Threads, p \in PageIds :
          (/\ Find(page_table, p)
           /\ last'.name = "FetchPage"
           /\ FetchPage(t, p))
          => (/\ last'.ok
              /\ last'.pid = p
              /\ pages' = [pages EXCEPT ![page_table[p]].pin_count = @ + 1]
              /\ page_table[p] \notin replacer'.tracked
              /\ NoDiskCall(FetchPageImpl(Pool, p))
              /\ UNCHANGED <<page_table, free_list, disk>>)]_vars

\* A second handle on a page whose buffer the first holder wrote: only a hit
\* raises a pin count to 2.
C14_Witness ==
    /\ last.name = "FetchPage"
    /\ last.ok
    /\ Find(page_table, last.pid)
    /\ pages[page_table[last.pid]].pin_count = 2
    /\ pages[page_table[last.pid]].data = Marker

\* C15: the dirty flag is monotonic under UnpinPage: a successful
\* UnpinPage(P, true) sets the frame's dirty flag and UnpinPage(P, false)
\* never clears it, so a dirty page stays dirty across fetch hits and unpins.
C15_DirtyMonotonic ==
    [][\A t \in Threads, p \in PageIds :
          Find(page_table, p)
          => LET pg == pages[page_table[p]]
             IN  /\ \A d \in BOOLEAN :
                        (pg.pin_count > 0 /\ UnpinPage(t, p, d))
                        => (/\ last'.ok
                            /\ Find(page_table', p)
                            /\ pages'[page_table'[p]].is_dirty = (pg.is_dirty \/ d))
                 /\ (/\ pg.is_dirty
                     /\ \/ FetchPage(t, p)
                        \/ \E d \in BOOLEAN : UnpinPage(t, p, d))
                    => (/\ Find(page_table', p)
                        /\ pages'[page_table'[p]].is_dirty)]_vars

\* A dirty page that was fetched a second time and then unpinned once.
C15_Witness ==
    /\ last.name = "UnpinPage"
    /\ last.ok
    /\ Find(page_table, last.pid)
    /\ pages[page_table[last.pid]].is_dirty
    /\ pages[page_table[last.pid]].pin_count = 1

\* C16: FlushPage(P) reports failure and makes no disk call when P is not
\* resident; when P is resident and dirty it issues exactly one WritePage
\* under id P with the frame's buffer, clears the dirty flag and succeeds;
\* when P is resident and clean it succeeds without any disk call; in every
\* case pin counts, page table, free list and replacer are unchanged.
C16_FlushPage ==
    [][\A t \in Threads, p \in PageIds :
          (/\ last'.name = "FlushPage"
           /\ FlushPage(t, p))
          => LET r == FlushPageImpl(Pool, p)
             IN  /\ ~Find(page_table, p)
                    => (~last'.ok /\ NoDiskCall(r) /\ UNCHANGED <<disk, pages>>)
                 /\ Find(page_table, p)
                    => LET f == page_table[p]
                       IN  IF pages[f].is_dirty
                           THEN /\ last'.ok
                                /\ r.writes = << <<p, pages[f].data>> >>
                                /\ r.reads = <<>> /\ r.allocs = 0 /\ r.deallocs = <<>>
                                /\ disk' = WritePage(disk, p, pages[f].data)
                                /\ pages' = [pages EXCEPT ![f].is_dirty = FALSE]
                           ELSE /\ last'.ok
                                /\ NoDiskCall(r)
                                /\ UNCHANGED <<disk, pages>>
                 /\ r.st.page_table = page_table
                 /\ r.st.free_list = free_list
                 /\ r.st.replacer = replacer
                 /\ UNCHANGED <<page_table, free_list, replacer, next_page_id>>]_vars

\* A FlushPage has just put client-written bytes of a resident page on disk.
C16_Witness ==
    /\ last.name = "FlushPage"
    /\ last.ok
    /\ Find(page_table, last.pid)
    /\ ~pages[page_table[last.pid]].is_dirty
    /\ pages[page_table[last.pid]].data = Marker
    /\ ReadPage(disk, last.pid) = Marker

\* The frames FlushAllPages has to write: occupied and dirty.
DirtyFrames == {f \in Frames : Bound(f) /\ pages[f].is_dirty}
WritesUnder(writes, pid) == {i \in DOMAIN writes : writes[i][1] = pid}

\* C17: FlushAllPages terminates without re-acquiring the lock it holds and
\* releases the lock on return; when it returns, every frame that was occupied
\* and dirty at the call has been written to disk exactly once under its own
\* page id and no frame is dirty; page table, pin counts, free list and
\* replacer are unchanged.
C17_FlushAllPages ==
    [][\A t \in Threads :
          (/\ last'.name = "FlushAllPages"
           /\ FlushAllPages(t))
          => LET r == FlushAllPagesImpl(Pool)
             IN  /\ r.unlocked
                 /\ ~latch'
                 /\ Len(r.writes) = Cardinality(DirtyFrames)
                 /\ \A f \in DirtyFrames :
                        /\ Cardinality(WritesUnder(r.writes, pages[f].page_id)) = 1
                        /\ \A i \in WritesUnder(r.writes, pages[f].page_id) :
                               r.writes[i][2] = pages[f].data
                        /\ ReadPage(disk', pages[f].page_id) = pages[f].data
                 /\ \A p \in PageIds :
                        (\A f \in DirtyFrames : pages[f].page_id # p)
                        => ReadPage(disk', p) = ReadPage(disk, p)
                 /\ r.reads = <<>> /\ r.allocs = 0 /\ r.deallocs = <<>>
                 /\ pages' = [f \in Frames |-> [pages[f] EXCEPT !.is_dirty = FALSE]]
                 /\ UNCHANGED <<page_table, free_list, replacer, next_page_id>>]_vars

\* A FlushAllPages has returned with client-written bytes of a resident page
\* on disk, nothing dirty and the lock free.
C17_Witness ==
    /\ last.name = "FlushAllPages"
    /\ ~latch
    /\ \A f \in Frames : ~pages[f].is_dirty
    /\ \E p \in DOMAIN page_table :
           /\ pages[page_table[p]].data = Marker
           /\ ReadPage(disk, p) = Marker

\* C18: a successful NewPage() returns a page id obtained from AllocatePage
\* that differs from every id returned by an earlier NewPage call; the chosen
\* frame has that page_id, pin_count = 1, dirty = false and an all-zero
\* buffer, is bound under the id in the page table, is not tracked by the
\* replacer, and no ReadPage is issued.
C18_NewPage ==
    [][\A t \in Threads :
          (/\ last'.name = "NewPage"
           /\ last'.ok
           /\ NewPage(t))
          => LET r   == NewPageImpl(Pool)
                 pid == last'.pid
             IN  /\ r.allocs = 1
                 /\ pid = next_page_id
                 /\ pid \notin Allocated
                 /\ next_page_id' = next_page_id + 1
                 /\ r.reads = <<>>
                 /\ Find(page_table', pid)
                 /\ pages'[page_table'[pid]] = [page_id   |-> pid,
                                                pin_count |-> 1,
                                                is_dirty  |-> FALSE,
                                                data      |-> Zeroed]
                 /\ page_table'[pid] \notin replacer'.tracked]_vars

\* NewPage has just reused the frame of an evicted page whose client-written
\* bytes went to disk.
C18_Witness ==
    /\ last.name = "NewPage"
    /\ last.ok
    /\ replacer.hand # 0
    /\ free_list = <<>>
    /\ pages[page_table[last.pid]].data = Zeroed
    /\ \E q \in Allocated : ~Find(page_table, q) /\ ReadPage(disk, q) = Marker

\* C19: every frame in the free list is unoccupied: its page_id is the
\* invalid id, its pin_count is 0, its dirty flag is false, and it is not a
\* value in the page table; this holds at construction and after every
\* DeletePage that returns a frame to the free list.
C19_FreeFramesUnoccupied ==
    \A f \in Frames :
        InFreeList(f)
        => (/\ pages[f].page_id = INVALID_PAGE_ID
            /\ pages[f].pin_count = 0
            /\ ~pages[f].is_dirty
            /\ ~Bound(f))

\* The pages some caller still holds a handle on: the pool counts the handles
\* handed out and not yet unpinned in the frame's pin_count.
Held == {q \in DOMAIN page_table : pages[page_table[q]].pin_count > 0}

\* C20: a frame whose handle is still held (more successful FetchPage/NewPage
\* returns for its page than successful UnpinPage calls) is never returned to
\* the free list and never rebound to another page id by FetchPage, NewPage
\* or DeletePage: it keeps the same page_id until the holder unpins.
C20_HeldFrameStable ==
    [][\A q \in Held :
          LET f == page_table[q]
          IN  /\ Find(page_table', q)
              /\ page_table'[q] = f
              /\ pages'[f].page_id = q
              /\ f \notin Range(free_list')]_vars

=============================================================================
